---- MODULE Spec2Model ----
(***************************************************************************)
(* Model of the casai-examples planning example (dashboard generator) and  *)
(* RAG example.                                                            *)
(*                                                                         *)
(*   Spec      the dashboard generator: src/6-planning/index.ts and the    *)
(*             earlier revision whose orchestrator is a Cascada script.    *)
(***************************************************************************)
EXTENDS Integers, Sequences, FiniteSets, TLC

\* ------------------------------------------------------------------------
\* Bounds of the model
\* ------------------------------------------------------------------------

\* dataTool calls the planner issues in one run (the code allows up to 32 steps)
MaxToolCalls == 2

\* dataTool calls the planner issues in one run of the script revision
MaxFileToolCalls == 1

\* rows of the longest result a generated SQL query returns
MaxRows == 6

\* rows of the longest result list the preview is built from
MaxPreviewRows == 7

\* chunks the chunker cuts the text into
MaxChunks == 3

\* candidates handed to the relevance-filtering loop
MaxCandidates == 22

\* texts in the vector index when one query is followed check by check
MaxStored == 3

\* items in the vector index when the checks of a query are only counted
MaxIndexItems == 22

\* ------------------------------------------------------------------------
\* JavaScript values of the fields of input.json
\* ------------------------------------------------------------------------

JsUndefined == [t |-> "undefined", s |-> ""]

JsNull == [t |-> "null", s |-> ""]

Str(s) == [t |-> "string", s |-> s]

\* !value of JavaScript, for the values a JSON string field can hold
Falsy(v) == v.t # "string" \/ v.s = ""

DatasetNames == {"a", "b"}

\* what JSON.parse(input.json) can give for the four fields
ParsedInputs ==
    [ datasetName        : {JsUndefined, JsNull, Str("")} \cup {Str(n) : n \in DatasetNames},
      datasetDescription : {JsUndefined, Str(""), Str("d")},
      databaseUrl        : {JsUndefined, Str(""), Str("u")},
      userRequest        : {JsUndefined, Str(""), Str("r")} ]

NoInput ==
    [ datasetName |-> JsUndefined, datasetDescription |-> JsUndefined,
      databaseUrl |-> JsUndefined, userRequest |-> JsUndefined ]

\* ------------------------------------------------------------------------
\* Errors
\* ------------------------------------------------------------------------

NoErr == [msg |-> "", arg |-> <<>>, status |-> 0, statusText |-> ""]

Err(m) == [msg |-> m, arg |-> <<>>, status |-> 0, statusText |-> ""]

InputErrMsg == "input.json must contain datasetName, datasetDescription, databaseUrl, and userRequest."

EmptySqlMsg == "[dataTool] SQL generator returned an empty query."

DbNotFoundMsg == "[dataTool] Database file not found at <dbPath>. It should be downloaded during initialization before invoking the planner."

DownloadErrMsg == "Failed to download DB from <databaseUrl>. HTTP <status> <statusText>"

\* `Failed to download DB from ${databaseUrl}. HTTP ${response.status} ${response.statusText}`
DownloadErr(url, resp) ==
    [msg |-> DownloadErrMsg, arg |-> <<url>>, status |-> resp.status, statusText |-> resp.statusText]

\* `[dataTool] Database file not found at ${dbPath}. ...`
DbNotFoundErr(dbPath) ==
    [msg |-> DbNotFoundMsg, arg |-> dbPath, status |-> 0, statusText |-> ""]

\* HTTP responses fetch(databaseUrl) can resolve to
Responses ==
    { [ok |-> TRUE,  status |-> 200, statusText |-> "OK"],
      [ok |-> FALSE, status |-> 404, statusText |-> "Not Found"],
      [ok |-> FALSE, status |-> 500, statusText |-> "Internal Server Error"] }

\* ------------------------------------------------------------------------
\* Text of the SQL generator and String.prototype.trim
\* ------------------------------------------------------------------------

Whitespace == {" ", "\n"}

RECURSIVE TrimStart(_)
TrimStart(s) ==
    IF s # <<>> /\ Head(s) \in Whitespace THEN TrimStart(Tail(s)) ELSE s

RECURSIVE TrimEnd(_)
TrimEnd(s) ==
    IF s # <<>> /\ s[Len(s)] \in Whitespace THEN TrimEnd(SubSeq(s, 1, Len(s) - 1)) ELSE s

\* sqlResult.text.trim()
Trim(s) == TrimEnd(TrimStart(s))

\* texts the SQL generator can return (characters; "S" stands for SQL text)
GenTexts ==
    { <<>>, <<" ">>, <<"\n", " ">>, <<"S">>, <<" ", "S", "\n">> }

\* ------------------------------------------------------------------------
\* Result rows and the preview JSON
\* ------------------------------------------------------------------------

Min(a, b) == IF a < b THEN a ELSE b

\* rows.length <= 5: the whole list is shown
PreviewFullLimit == 5

\* rows.slice(0, 3)
PreviewHeadRows == 3

\* the result lists db.prepare(sql).all() returns: none, one or MaxRows distinct rows
RowLists == { [i \in 1..n |-> i] : n \in {0, 1, MaxRows} }

\* distinct values a result row can take where the preview is checked
RowValues == {1, 2}

RECURSIVE SeqsUpTo(_, _)
SeqsUpTo(S, n) ==
    IF n = 0 THEN { <<>> }
    ELSE LET shorter == SeqsUpTo(S, n - 1)
         IN  shorter \cup { Append(q, x) : q \in { r \in shorter : Len(r) = n - 1 }, x \in S }

\* the result lists the preview is checked on: every list of up to MaxPreviewRows rows
PreviewInputs == SeqsUpTo(RowValues, MaxPreviewRows)

Tok(k, v) == [k |-> k, v |-> v]

RECURSIVE JsonItems(_)
JsonItems(rows) ==
    IF rows = <<>> THEN <<>>
    ELSE <<Tok("\n  ", 0), Tok("row", Head(rows))>>
         \o (IF Tail(rows) = <<>> THEN <<>> ELSE <<Tok(",", 0)>>)
         \o JsonItems(Tail(rows))

\* JSON.stringify(rows, replacer, 2): "[]" for the empty list, else the rows
\* one per indented line between "[" and "\n]"
JsonStringify(rows) ==
    IF rows = <<>> THEN <<Tok("[]", 0)>>
    ELSE <<Tok("[", 0)>> \o JsonItems(rows) \o <<Tok("\n", 0), Tok("]", 0)>>

\* json.replace(/\n\]$/, `,\n   ... ${n} more items\n]`)
AppendMoreItems(json, n) ==
    IF Len(json) >= 2 /\ json[Len(json) - 1] = Tok("\n", 0) /\ json[Len(json)] = Tok("]", 0)
    THEN SubSeq(json, 1, Len(json) - 2)
         \o <<Tok(",", 0), Tok("\n   ", 0), Tok("... N more items", n), Tok("\n", 0), Tok("]", 0)>>
    ELSE json

\* the rule of an earlier revision: first rows, then "... <rows.length> elements total"
BuildPreviewTotal(rows) ==
    IF Len(rows) <= PreviewFullLimit THEN JsonStringify(rows)
    ELSE AppendMoreItems(JsonStringify(SubSeq(rows, 1, PreviewHeadRows)), Len(rows))

\* step 5 of dataTool.execute (rows is always an array: the result of all())
BuildPreview(rows) ==
    IF Len(rows) <= PreviewFullLimit THEN JsonStringify(rows)
    ELSE AppendMoreItems(JsonStringify(SubSeq(rows, 1, PreviewHeadRows)),
                         Len(rows) - PreviewHeadRows)

\* ------------------------------------------------------------------------
\* State of the dashboard generator
\* ------------------------------------------------------------------------

VARIABLES
    program,          \* which revision runs: "index" (plain JS), "script" (Cascada script,
                      \* the tool writes JSON files) or "global" (one database handle)
    step,             \* status of each orchestrator step
    parsed,           \* what JSON.parse(raw) gave inside loadInput
    input,            \* what loadInput returned
    err,              \* the error that ended the run
    dlpc,             \* position inside downloadDatabaseIfMissing
    dbFile,           \* dbFile[p]: a file exists at path p
    httpRequests,     \* fetch calls of this run
    fileWrites,       \* fs.writeFile calls of downloadDatabaseIfMissing in this run
    dlSawFile,        \* existsSync(dbPath) as downloadDatabaseIfMissing saw it
    dlRetry,          \* this run's download follows a failed (not ok) download
    dbPathOut,        \* the path downloadDatabaseIfMissing returned
    downloads,        \* downloads[p]: completed downloads to path p, all runs
    httpFailed,       \* paths whose last download attempt ended with a not-ok response
    calls,            \* dataTool calls of this run, in the order issued
    collectedData,
    dataPointCounter,
    htmlWrites,       \* writes of dashboard.html in this run
    schemaDb,         \* the handle of extractSchemaSummary: times opened, times closed
    dbh,              \* the global handle db: "unset", "open" or "closed"
    dbCloses,         \* db.close() calls on the global handle
    strayQueries,     \* queries sent to the global handle while it was not open
    dataFiles         \* the JSON files the tool wrote in this run, by file name

dbVars == << schemaDb, dbh, dbCloses, strayQueries >>

planVars ==
    << program, step, parsed, input, err, dlpc, dbFile, httpRequests, fileWrites, dlSawFile,
       dlRetry, dbPathOut, downloads, httpFailed, calls, collectedData,
       dataPointCounter, htmlWrites, dbVars, dataFiles >>

VARIABLES
    pvRows,           \* rows, the result of db.prepare(sql).all()
    pvJson,           \* previewJson
    pvBuilt           \* step 5 of dataTool.execute has run

pvVars == << pvRows, pvJson, pvBuilt >>

VARIABLES
    ragVersion,       \* which revision of runIndexing runs
    ipc,              \* position inside runIndexing
    indexCreated,     \* index.isIndexCreated(): the index file is on disk
    items,            \* the items of the index, in insertion order
    bgCreate,         \* the createIndex() call left running in the background
    sawIndex,         \* index.isIndexCreated() as runIndexing saw it
    chunks,           \* the chunks to index
    ins,              \* ins[i]: status of the insert of chunks[i]
    nFetch,           \* fetch calls of this run
    nCreate,          \* createIndex calls of this run
    nEmbed,           \* chunker (embedding) calls of this run
    nInsert,          \* insertItem calls of this run
    itemsAtStart,     \* the items when this run began
    built             \* an earlier run completed a build and the index was not deleted since

ragVars ==
    << ragVersion, ipc, indexCreated, items, bgCreate, sawIndex, chunks, ins, nFetch,
       nCreate, nEmbed, nInsert, itemsAtStart, built >>

VARIABLES
    loopTotal,        \* candidates.length
    loopStarted,      \* iterations started
    loopFinished      \* iterations whose relevanceFilter call has settled

loopVars == << loopTotal, loopStarted, loopFinished >>

VARIABLES
    apc,              \* position inside the ragAgent script
    candidates,       \* var candidates
    chk,              \* chk[i]: status of the relevanceFilter check of candidates[i]
    filterCalls,      \* filterCalls[i]: relevanceFilter invocations for candidates[i]
    verifiedChunks,   \* the @data list of the capture block
    synthCalls,       \* synthesizeAnswer invocations
    synthChunks,      \* the chunks synthesizeAnswer received
    synthEarly,       \* synthesizeAnswer started while a check had not completed
    failedAt,         \* the step whose error ended the run
    result            \* the result of ragAgent

agVars ==
    << apc, candidates, chk, filterCalls, verifiedChunks, synthCalls, synthChunks,
       synthEarly, failedAt, result >>

VARIABLES
    spc,              \* position inside the ragAgent script
    sIndex,           \* items in the vector index
    sFound,           \* candidates.length
    sStarted,         \* checks started
    sFinished,        \* checks settled
    sRelevant,        \* checks that returned isRelevant = true
    sPassed,          \* length of the chunks handed to synthesizeAnswer
    sStats            \* result.stats

stVars == << spc, sIndex, sFound, sStarted, sFinished, sRelevant, sPassed, sStats >>

vars == << planVars, pvVars, ragVars, loopVars, agVars, stVars >>

nonPlanVars == << pvVars, ragVars, loopVars, agVars, stVars >>

nonPvVars == << planVars, ragVars, loopVars, agVars, stVars >>

nonRagVars == << planVars, pvVars, loopVars, agVars, stVars >>

nonLoopVars == << planVars, pvVars, ragVars, agVars, stVars >>

nonAgVars == << planVars, pvVars, ragVars, loopVars, stVars >>

nonStVars == << planVars, pvVars, ragVars, loopVars, agVars >>

Steps == <<"load", "download", "schema", "planner", "generator", "wrap", "write">>

StepSet == { Steps[i] : i \in 1..Len(Steps) }

StepIndex(s) == CHOOSE i \in 1..Len(Steps) : Steps[i] = s

\* a generator call that is not handed the plan
ScriptReadsNoPlan(s) ==
    CASE s = "load"      -> {}
      [] s = "download"  -> {"load"}
      [] s = "schema"    -> {"download", "load"}
      [] s = "planner"   -> {"load", "schema"}
      [] s = "generator" -> {"load", "schema"}
      [] s = "wrap"      -> {"generator"}
      [] s = "write"     -> {"wrap"}

\* the steps whose results a step of the Cascada script reads
ScriptReads(s) ==
    CASE s = "load"      -> {}
      [] s = "download"  -> {"load"}
      [] s = "schema"    -> {"download", "load"}
      [] s = "planner"   -> {"load", "schema"}
      [] s = "generator" -> {"load", "schema", "planner"}
      [] s = "wrap"      -> {"generator"}
      [] s = "write"     -> {"wrap"}

\* the awaits of the plain-JS orchestrator: a statement runs when the one before returned
AwaitedBefore(s) == { Steps[i] : i \in 1..(StepIndex(s) - 1) }

\* a step may start
Ready(s) ==
    /\ step[s] = "idle"
    /\ \A d \in (IF program = "script" THEN ScriptReads(s) ELSE AwaitedBefore(s)) :
          step[d] = "done"

NoKey == [name |-> "", id |-> 0]

\* `${authoritativeDatasetName}_${pointId}`
DataKey(name, id) == [name |-> name, id |-> id]

\* path.join(__dirname, 'database'); 'data' in the script revision
DATA_DIR == IF program = "script" THEN "data" ELSE "database"

\* getDbPath(datasetName): path.join(DATA_DIR, `${datasetName}.db`)
GetDbPath(name) == <<DATA_DIR, name, ".db">>

DbPaths == { GetDbPath(n) : n \in DatasetNames }

NoHandle == [opened |-> 0, closed |-> 0]

PlanInit ==
    /\ program \in {"index", "script"}
    /\ step = [s \in StepSet |-> "idle"]
    /\ parsed = NoInput
    /\ input = NoInput
    /\ err = NoErr
    /\ dlpc = "none"
    /\ dbFile = [p \in DbPaths |-> FALSE]
    /\ httpRequests = 0
    /\ fileWrites = 0
    /\ dlSawFile = FALSE
    /\ dlRetry = FALSE
    /\ dbPathOut = <<>>
    /\ downloads = [p \in DbPaths |-> 0]
    /\ httpFailed = {}
    /\ calls = <<>>
    /\ collectedData = <<>>
    /\ dataPointCounter = 1
    /\ htmlWrites = 0
    /\ schemaDb = NoHandle
    /\ dbh = "unset"
    /\ dbCloses = 0
    /\ strayQueries = 0
    /\ dataFiles = <<>>

\* the step fails: the exception leaves dashboardOrchestrator
Throw(s, e) ==
    /\ step' = [step EXCEPT ![s] = "failed"]
    /\ err' = e

\* ------------------------------------------------------------------------
\* loadInput
\* ------------------------------------------------------------------------

\* a check that forgets the last field
InputIncompleteThree(rec) ==
    \/ Falsy(rec.datasetName)
    \/ Falsy(rec.datasetDescription)
    \/ Falsy(rec.databaseUrl)

\* the check of loadInput on the parsed record
InputIncomplete(rec) ==
    \/ Falsy(rec.datasetName)
    \/ Falsy(rec.datasetDescription)
    \/ Falsy(rec.databaseUrl)
    \/ Falsy(rec.userRequest)

\* the orchestrator calls loadInput(): fs.readFile is pending
LoadStart ==
    /\ Ready("load")
    /\ step' = [step EXCEPT !["load"] = "running"]
    /\ UNCHANGED << program, parsed, input, err, dlpc, dbFile, httpRequests, fileWrites,
                    dlSawFile, dlRetry, dbPathOut, downloads, httpFailed, calls, collectedData,
                    dataPointCounter, htmlWrites >>
    /\ UNCHANGED << dbVars, dataFiles >>
    /\ UNCHANGED nonPlanVars

\* readFile resolved (or failed): JSON.parse, the field check, return or throw
LoadFinish ==
    /\ step["load"] = "running"
    /\ \/ /\ Throw("load", Err("cannot read or parse input.json"))
          /\ UNCHANGED << parsed, input >>
       \/ \E p \in ParsedInputs :
             /\ parsed' = p
             /\ IF InputIncomplete(p)
                THEN /\ Throw("load", Err(InputErrMsg))
                     /\ input' = input
                ELSE /\ step' = [step EXCEPT !["load"] = "done"]
                     /\ input' = p
                     /\ err' = err
    /\ UNCHANGED << program, dlpc, dbFile, httpRequests, fileWrites, dlSawFile,
                    dlRetry, dbPathOut, downloads, httpFailed, calls, collectedData,
                    dataPointCounter, htmlWrites >>
    /\ UNCHANGED << dbVars, dataFiles >>
    /\ UNCHANGED nonPlanVars

\* ------------------------------------------------------------------------
\* downloadDatabaseIfMissing(input.datasetName, input.databaseUrl)
\* ------------------------------------------------------------------------

\* a download that never looks at the disk
SkipDownloadNever(dbPath) == FALSE

\* if (existsSync(dbPath)) return dbPath;
SkipDownload(dbPath) == dbFile[dbPath]

\* ensureDataDir, the existence check, then either the return or the call of fetch
DownloadStart ==
    /\ Ready("download")
    /\ LET dbPath == GetDbPath(input.datasetName.s) IN
          /\ dlSawFile' = dbFile[dbPath]
          /\ dlRetry' = (dbPath \in httpFailed)
          /\ IF SkipDownload(dbPath)
             THEN /\ step' = [step EXCEPT !["download"] = "done"]
                  /\ dbPathOut' = dbPath
                  /\ UNCHANGED << dlpc, httpRequests >>
             ELSE /\ step' = [step EXCEPT !["download"] = "running"]
                  /\ dlpc' = "fetch"
                  /\ httpRequests' = httpRequests + 1
                  /\ dbPathOut' = dbPathOut
    /\ UNCHANGED << program, parsed, input, err, dbFile, fileWrites, downloads, httpFailed,
                    calls, collectedData, dataPointCounter, htmlWrites >>
    /\ UNCHANGED << dbVars, dataFiles >>
    /\ UNCHANGED nonPlanVars

\* a not-ok response creates the file all the same
FileAfterHttpErrorWritten(dbPath) == [dbFile EXCEPT ![dbPath] = TRUE]

\* if (!response.ok) throw ...: nothing was written
FileAfterHttpError(dbPath) == dbFile

\* fetch settles: it rejects, or resolves to a response that is ok or not
DownloadResponse ==
    /\ step["download"] = "running"
    /\ dlpc = "fetch"
    /\ LET dbPath == GetDbPath(input.datasetName.s) IN
       \/ /\ Throw("download", Err("fetch failed"))
          /\ dlpc' = "none"
          /\ UNCHANGED << dbFile, httpFailed >>
       \/ \E resp \in Responses :
             IF ~resp.ok
             THEN /\ Throw("download", DownloadErr(input.databaseUrl.s, resp))
                  /\ dlpc' = "none"
                  /\ dbFile' = FileAfterHttpError(dbPath)
                  /\ httpFailed' = httpFailed \cup {dbPath}
             ELSE /\ dlpc' = "body"
                  /\ UNCHANGED << step, err, dbFile, httpFailed >>
    /\ UNCHANGED << program, parsed, input, httpRequests, fileWrites, dlSawFile, dlRetry,
                    dbPathOut, downloads, calls, collectedData, dataPointCounter,
                    htmlWrites >>
    /\ UNCHANGED << dbVars, dataFiles >>
    /\ UNCHANGED nonPlanVars

\* response.arrayBuffer() settles; Buffer.from; fs.writeFile is called
DownloadBody ==
    /\ step["download"] = "running"
    /\ dlpc = "body"
    /\ \/ /\ Throw("download", Err("body read failed"))
          /\ dlpc' = "none"
          /\ fileWrites' = fileWrites
       \/ /\ dlpc' = "write"
          /\ fileWrites' = fileWrites + 1
          /\ UNCHANGED << step, err >>
    /\ UNCHANGED << program, parsed, input, dbFile, httpRequests, dlSawFile, dlRetry,
                    dbPathOut, downloads, httpFailed, calls, collectedData,
                    dataPointCounter, htmlWrites >>
    /\ UNCHANGED << dbVars, dataFiles >>
    /\ UNCHANGED nonPlanVars

\* fs.writeFile settles: the file is written and the path returned, or the write
\* fails and may leave a file behind
DownloadWrite ==
    /\ step["download"] = "running"
    /\ dlpc = "write"
    /\ dlpc' = "none"
    /\ LET dbPath == GetDbPath(input.datasetName.s) IN
          /\ httpFailed' = httpFailed \ {dbPath}
          /\ \/ /\ Throw("download", Err("write failed"))
                /\ \E left \in BOOLEAN : dbFile' = [dbFile EXCEPT ![dbPath] = left]
                /\ UNCHANGED << dbPathOut, downloads >>
             \/ /\ step' = [step EXCEPT !["download"] = "done"]
                /\ dbFile' = [dbFile EXCEPT ![dbPath] = TRUE]
                /\ dbPathOut' = dbPath
                /\ downloads' = [downloads EXCEPT ![dbPath] = @ + 1]
                /\ err' = err
    /\ UNCHANGED << program, parsed, input, httpRequests, fileWrites, dlSawFile, dlRetry,
                    calls, collectedData, dataPointCounter, htmlWrites >>
    /\ UNCHANGED << dbVars, dataFiles >>
    /\ UNCHANGED nonPlanVars

\* ------------------------------------------------------------------------
\* extractSchemaSummary(dbPath, input.datasetName)
\* ------------------------------------------------------------------------

\* a close that is skipped when the query throws
ClosesNoFinally(threw) == IF threw THEN 0 ELSE 1

\* try { ... } finally { db.close(); }: db.close() calls after the query
Closes(threw) == 1

\* a try block that ends after the schema extraction
InTryShort(s) == s \in {"schema"}

\* the steps inside the try block of the orchestrator with the global handle
InTry(s) == s \in {"schema", "planner", "generator", "wrap", "write"}

\* finally { db.close(); } of that orchestrator, as step s throws or as it returns
Finally(s) ==
    IF program = "global" /\ InTry(s)
    THEN dbh' = "closed" /\ dbCloses' = dbCloses + 1
    ELSE UNCHANGED << dbh, dbCloses >>

\* db = new Sqlite(dbPath, { readonly: true }), before the try block
OpenDb ==
    /\ program = "global"
    /\ step["download"] = "done"
    /\ step["schema"] = "idle"
    /\ dbh = "unset"
    /\ \/ /\ dbh' = "open"
          /\ UNCHANGED << step, err >>
       \/ /\ Throw("schema", Err("unable to open database file"))
          /\ UNCHANGED dbh
    /\ UNCHANGED << program, parsed, input, dlpc, dbFile, httpRequests, fileWrites,
                    dlSawFile, dlRetry, dbPathOut, downloads, httpFailed, calls,
                    collectedData, dataPointCounter, htmlWrites, schemaDb, dbCloses,
                    strayQueries, dataFiles >>
    /\ UNCHANGED nonPlanVars

\* synchronous: read the tables and columns, on a handle of its own that it opens
\* and closes, or on the global handle
ExtractSchema ==
    /\ Ready("schema")
    /\ program = "global" => dbh # "unset"
    /\ IF program = "global"
       THEN /\ strayQueries' = IF dbh = "open" THEN strayQueries ELSE strayQueries + 1
            /\ UNCHANGED schemaDb
            /\ \/ /\ dbh = "open"
                  /\ step' = [step EXCEPT !["schema"] = "done"]
                  /\ err' = err
                  /\ UNCHANGED << dbh, dbCloses >>
               \/ /\ Throw("schema", Err("sqlite error"))
                  /\ Finally("schema")
       ELSE /\ UNCHANGED << dbh, dbCloses, strayQueries >>
            /\ \/ /\ Throw("schema", Err("unable to open database file"))
                  /\ UNCHANGED schemaDb
               \/ /\ Throw("schema", Err("sqlite error"))
                  /\ schemaDb' = [opened |-> 1, closed |-> Closes(TRUE)]
               \/ /\ step' = [step EXCEPT !["schema"] = "done"]
                  /\ err' = err
                  /\ schemaDb' = [opened |-> 1, closed |-> Closes(FALSE)]
    /\ UNCHANGED << program, parsed, input, dlpc, dbFile, httpRequests, fileWrites,
                    dlSawFile, dlRetry, dbPathOut, downloads, httpFailed, calls,
                    collectedData, dataPointCounter, htmlWrites, dataFiles >>
    /\ UNCHANGED nonPlanVars

\* ------------------------------------------------------------------------
\* plannerAgent and dataTool.execute
\* ------------------------------------------------------------------------

PlannerStart ==
    /\ Ready("planner")
    /\ step' = [step EXCEPT !["planner"] = "running"]
    /\ UNCHANGED << program, parsed, input, err, dlpc, dbFile, httpRequests, fileWrites,
                    dlSawFile, dlRetry, dbPathOut, downloads, httpFailed, calls,
                    collectedData, dataPointCounter, htmlWrites >>
    /\ UNCHANGED << dbVars, dataFiles >>
    /\ UNCHANGED nonPlanVars

\* a check that lets every call through
DbMissingIgnored(dbPath) == FALSE

\* if (!existsSync(dbPath)) throw ...
DbMissing(dbPath) == ~dbFile[dbPath]

\* a check that forgets to trim
IsEmptySqlUntrimmed(text) == text = <<>>

\* const sql = sqlResult.text.trim(); if (!sql) throw ...
IsEmptySql(text) == Trim(text) = <<>>

\* the text is empty or holds whitespace only
Blank(text) == \A i \in 1..Len(text) : text[i] \in Whitespace

\* the file of a data point in the script revision:
\* `${authoritativeDatasetName}-point-${pointId}.json`
JsonFilename(name, id) == [name |-> name, point |-> id, ext |-> ".json"]

\* path.join(DATA_DIR, jsonFilename)
DiskPath(file) == [dir |-> DATA_DIR, file |-> file]

\* `./data/${jsonFilename}`, relative to the folder of dashboard.html
BrowserPath(file) == [dir |-> "./data", file |-> file]

\* the preview of the script revision: the first rows and, as one more element
\* of the array, the string "... <rows.length> elements total"
BuildPreviewArray(rows) ==
    IF Len(rows) <= PreviewFullLimit THEN JsonStringify(rows)
    ELSE <<Tok("[", 0)>> \o JsonItems(SubSeq(rows, 1, PreviewHeadRows))
         \o <<Tok(",", 0), Tok("\n  ", 0), Tok("... N elements total", Len(rows)),
              Tok("\n", 0), Tok("]", 0)>>

NoRet == [dataFile |-> NoKey, previewJson |-> <<>>]

NewCall(name) ==
    [ name |-> name, sawFile |-> FALSE, st |-> "gen", err |-> NoErr, gens |-> 0,
      blank |-> FALSE, sql |-> <<>>, opened |-> 0, closed |-> 0, prepared |-> 0,
      key |-> NoKey, preview |-> <<>>, rows |-> <<>>, ret |-> NoRet ]

\* the datasetName a call works on: the one the planner passed (plain-JS revision),
\* or the one of the input (script revision: loadInput again; global-handle
\* revision: the context of the tool)
CallNames == IF program = "index" THEN DatasetNames ELSE { input.datasetName.s }

CallLimit == IF program = "script" THEN MaxFileToolCalls ELSE MaxToolCalls

\* the planner calls dataTool: execute runs to its first await (the file check
\* and the call of the SQL generator; loadInput in the script revision)
ToolCall ==
    /\ step["planner"] = "running"
    /\ Len(calls) < CallLimit
    /\ \E name \in CallNames :
          LET dbPath == GetDbPath(name)
              c == [NewCall(name) EXCEPT !.sawFile = dbFile[dbPath]]
          IN  calls' = Append(calls,
                  CASE program = "index" ->
                          IF DbMissing(dbPath)
                          THEN [c EXCEPT !.st = "failed", !.err = DbNotFoundErr(dbPath)]
                          ELSE [c EXCEPT !.gens = 1]
                    [] program = "script" -> [c EXCEPT !.st = "input"]
                    [] program = "global" -> [c EXCEPT !.gens = 1])
    /\ UNCHANGED << program, step, parsed, input, err, dlpc, dbFile, httpRequests,
                    fileWrites, dlSawFile, dlRetry, dbPathOut, downloads, httpFailed,
                    collectedData, dataPointCounter, htmlWrites >>
    /\ UNCHANGED << dbVars, dataFiles >>
    /\ UNCHANGED nonPlanVars

\* a store that keeps what the preview shows
StoreHead(data, key, rows) ==
    [k \in (DOMAIN data) \cup {key} |->
        IF k = key THEN SubSeq(rows, 1, Min(Len(rows), PreviewHeadRows)) ELSE data[k]]

\* collectedData[dataKey] = rows
Store(data, key, rows) ==
    [k \in (DOMAIN data) \cup {key} |-> IF k = key THEN rows ELSE data[k]]

\* a counter that stays where it is
NextPointIdStuck(counter) == counter

\* const pointId = dataPointCounter++: the counter after the statement
NextPointId(counter) == counter + 1

\* a counter taken before the query runs
CounterAfterThrowTaken(counter) == counter + 1

\* the counter after a call that throws: every throw precedes dataPointCounter++
CounterAfterThrow(counter) == counter

\* the await of execute settles and execute runs on. Plain-JS and global-handle
\* revisions: trim and the empty check, the query, the counter, the store, the
\* preview, to the end. Script revision: the query, the counter, and the call of
\* fs.writeFile for the JSON file
ToolResume ==
    /\ \E i \in 1..Len(calls) :
          /\ calls[i].st \in {"gen", "input"}
          /\ LET c == calls[i]
                 dbPath == GetDbPath(c.name)
                 fail(d, e) == [d EXCEPT !.st = "failed", !.err = e]
                 failed(d, e) ==
                    /\ calls' = [calls EXCEPT ![i] = fail(d, e)]
                    /\ dataPointCounter' = CounterAfterThrow(dataPointCounter)
                    /\ UNCHANGED << collectedData, strayQueries >>
                 ownHandle(d, threw) ==
                    [d EXCEPT !.opened = 1, !.prepared = 1, !.closed = Closes(threw)]
             IN
             IF program = "script"
             THEN
                \/ failed(c, Err("loadInput failed"))
                \/ /\ dbFile[dbPath]
                   /\ \/ failed(c, Err("unable to open database file"))
                      \/ failed(ownHandle(c, TRUE), Err("sqlite error"))
                      \/ \E rows \in RowLists :
                            /\ dataPointCounter' = NextPointId(dataPointCounter)
                            /\ calls' = [calls EXCEPT ![i] =
                                  [ownHandle(c, FALSE) EXCEPT
                                      !.st = "write", !.rows = rows,
                                      !.key = BrowserPath(JsonFilename(c.name, dataPointCounter))]]
                            /\ UNCHANGED << collectedData, strayQueries >>
             ELSE
                \/ failed(c, Err("SQL generator failed"))
                \/ \E text \in GenTexts :
                      LET g == [c EXCEPT !.blank = Blank(text), !.sql = Trim(text)] IN
                      IF IsEmptySql(text)
                      THEN failed(g, Err(EmptySqlMsg))
                      ELSE
                         \/ /\ program = "index"
                            /\ failed(g, Err("unable to open database file"))
                         \/ /\ program = "global"
                            /\ dbh # "open"
                            /\ calls' = [calls EXCEPT ![i] =
                                  fail(g, Err("The database connection is not open"))]
                            /\ strayQueries' = strayQueries + 1
                            /\ dataPointCounter' = CounterAfterThrow(dataPointCounter)
                            /\ UNCHANGED collectedData
                         \/ /\ dbFile[dbPath]
                            /\ program = "global" => dbh = "open"
                            /\ failed(IF program = "index" THEN ownHandle(g, TRUE)
                                      ELSE [g EXCEPT !.prepared = 1],
                                      Err("sqlite error"))
                         \/ /\ dbFile[dbPath]
                            /\ program = "global" => dbh = "open"
                            /\ \E rows \in RowLists :
                                  LET pointId == dataPointCounter
                                      dataKey == DataKey(c.name, pointId)
                                      q == IF program = "index" THEN ownHandle(g, FALSE)
                                           ELSE [g EXCEPT !.prepared = 1]
                                  IN  /\ dataPointCounter' = NextPointId(dataPointCounter)
                                      /\ collectedData' = Store(collectedData, dataKey, rows)
                                      /\ calls' = [calls EXCEPT ![i] =
                                            [q EXCEPT !.st = "done", !.rows = rows,
                                                      !.key = dataKey,
                                                      !.preview = BuildPreview(rows),
                                                      !.ret = [dataFile |-> dataKey,
                                                               previewJson |-> BuildPreview(rows)]]]
                                      /\ UNCHANGED strayQueries
    /\ UNCHANGED << program, step, parsed, input, err, dlpc, dbFile, httpRequests,
                    fileWrites, dlSawFile, dlRetry, dbPathOut, downloads, httpFailed,
                    htmlWrites, schemaDb, dbh, dbCloses, dataFiles >>
    /\ UNCHANGED nonPlanVars

\* script revision: fs.writeFile(diskPath, JSON.stringify(rows, null, 2)) settles
\* and execute builds the preview and returns
ToolWritten ==
    /\ \E i \in 1..Len(calls) :
          /\ calls[i].st = "write"
          /\ LET c == calls[i] IN
             \/ /\ calls' = [calls EXCEPT ![i] =
                      [c EXCEPT !.st = "failed", !.err = Err("write failed")]]
                /\ UNCHANGED dataFiles
             \/ /\ dataFiles' = Store(dataFiles, DiskPath(c.key.file), c.rows)
                /\ calls' = [calls EXCEPT ![i] =
                      [c EXCEPT !.st = "done", !.preview = BuildPreviewArray(c.rows),
                                !.ret = [dataFile |-> c.key,
                                         previewJson |-> BuildPreviewArray(c.rows)]]]
    /\ UNCHANGED << program, step, parsed, input, err, dlpc, dbFile, httpRequests,
                    fileWrites, dlSawFile, dlRetry, dbPathOut, downloads, httpFailed,
                    collectedData, dataPointCounter, htmlWrites, dbVars >>
    /\ UNCHANGED nonPlanVars

Settled == \A i \in 1..Len(calls) : calls[i].st \in {"done", "failed"}

\* generateText returns the plan, or fails; every tool call it made has settled
PlannerFinish ==
    /\ step["planner"] = "running"
    /\ Settled
    /\ \/ /\ step' = [step EXCEPT !["planner"] = "done"]
          /\ err' = err
          /\ UNCHANGED << dbh, dbCloses >>
       \/ /\ Throw("planner", Err("planner failed"))
          /\ Finally("planner")
    /\ UNCHANGED << program, parsed, input, dlpc, dbFile, httpRequests, fileWrites,
                    dlSawFile, dlRetry, dbPathOut, downloads, httpFailed, calls,
                    collectedData, dataPointCounter, htmlWrites >>
    /\ UNCHANGED << schemaDb, strayQueries, dataFiles >>
    /\ UNCHANGED nonPlanVars

\* ------------------------------------------------------------------------
\* dashboardBodyGenerator, wrapHtml, writeDashboard
\* ------------------------------------------------------------------------

GeneratorStart ==
    /\ Ready("generator")
    /\ step' = [step EXCEPT !["generator"] = "running"]
    /\ UNCHANGED << program, parsed, input, err, dlpc, dbFile, httpRequests, fileWrites,
                    dlSawFile, dlRetry, dbPathOut, downloads, httpFailed, calls,
                    collectedData, dataPointCounter, htmlWrites >>
    /\ UNCHANGED << dbVars, dataFiles >>
    /\ UNCHANGED nonPlanVars

GeneratorFinish ==
    /\ step["generator"] = "running"
    /\ \/ /\ step' = [step EXCEPT !["generator"] = "done"]
          /\ err' = err
          /\ UNCHANGED << dbh, dbCloses >>
       \/ /\ Throw("generator", Err("generator failed"))
          /\ Finally("generator")
    /\ UNCHANGED << program, parsed, input, dlpc, dbFile, httpRequests, fileWrites,
                    dlSawFile, dlRetry, dbPathOut, downloads, httpFailed, calls,
                    collectedData, dataPointCounter, htmlWrites >>
    /\ UNCHANGED << schemaDb, strayQueries, dataFiles >>
    /\ UNCHANGED nonPlanVars

WrapStart ==
    /\ Ready("wrap")
    /\ step' = [step EXCEPT !["wrap"] = "running"]
    /\ UNCHANGED << program, parsed, input, err, dlpc, dbFile, httpRequests, fileWrites,
                    dlSawFile, dlRetry, dbPathOut, downloads, httpFailed, calls,
                    collectedData, dataPointCounter, htmlWrites >>
    /\ UNCHANGED << dbVars, dataFiles >>
    /\ UNCHANGED nonPlanVars

WrapFinish ==
    /\ step["wrap"] = "running"
    /\ \/ /\ step' = [step EXCEPT !["wrap"] = "done"]
          /\ err' = err
          /\ UNCHANGED << dbh, dbCloses >>
       \/ /\ Throw("wrap", Err("template failed"))
          /\ Finally("wrap")
    /\ UNCHANGED << program, parsed, input, dlpc, dbFile, httpRequests, fileWrites,
                    dlSawFile, dlRetry, dbPathOut, downloads, httpFailed, calls,
                    collectedData, dataPointCounter, htmlWrites >>
    /\ UNCHANGED << schemaDb, strayQueries, dataFiles >>
    /\ UNCHANGED nonPlanVars

\* writeFileSync(OUTPUT_HTML, html, 'utf-8')
WriteDashboard ==
    /\ Ready("write")
    /\ htmlWrites' = htmlWrites + 1
    /\ \/ /\ step' = [step EXCEPT !["write"] = "done"]
          /\ err' = err
       \/ Throw("write", Err("write failed"))
    /\ Finally("write")
    /\ UNCHANGED << program, parsed, input, dlpc, dbFile, httpRequests, fileWrites,
                    dlSawFile, dlRetry, dbPathOut, downloads, httpFailed, calls,
                    collectedData, dataPointCounter >>
    /\ UNCHANGED << schemaDb, strayQueries, dataFiles >>
    /\ UNCHANGED nonPlanVars

\* ------------------------------------------------------------------------
\* The program runs again: memory starts afresh, the disk is as it was left
\* ------------------------------------------------------------------------

RunEnded == step["write"] = "done" \/ \E s \in StepSet : step[s] = "failed"

Restart ==
    /\ RunEnded
    /\ step' = [s \in StepSet |-> IF program = "global" /\ s = "load" THEN "done" ELSE "idle"]
    /\ parsed' = NoInput
    /\ input' = IF program = "global" THEN input ELSE NoInput
    /\ err' = NoErr
    /\ dlpc' = "none"
    /\ httpRequests' = 0
    /\ fileWrites' = 0
    /\ dlSawFile' = FALSE
    /\ dlRetry' = FALSE
    /\ dbPathOut' = <<>>
    /\ calls' = <<>>
    /\ collectedData' = <<>>
    /\ dataPointCounter' = 1
    /\ htmlWrites' = 0
    /\ schemaDb' = NoHandle
    /\ dbh' = "unset"
    /\ dbCloses' = 0
    /\ strayQueries' = 0
    /\ dataFiles' = <<>>
    /\ UNCHANGED << program, dbFile, downloads, httpFailed >>
    /\ UNCHANGED nonPlanVars

PlanNext ==
    \/ LoadStart
    \/ LoadFinish
    \/ DownloadStart
    \/ DownloadResponse
    \/ DownloadBody
    \/ DownloadWrite
    \/ ExtractSchema
    \/ PlannerStart
    \/ ToolCall
    \/ ToolResume
    \/ ToolWritten
    \/ PlannerFinish
    \/ GeneratorStart
    \/ GeneratorFinish
    \/ WrapStart
    \/ WrapFinish
    \/ WriteDashboard
    \/ Restart

\* ------------------------------------------------------------------------
\* Step 5 of dataTool.execute on its own: the preview of every result list
\* ------------------------------------------------------------------------

PvIdle ==
    /\ pvRows = <<>>
    /\ pvJson = <<>>
    /\ pvBuilt = FALSE

PvInit ==
    /\ pvRows \in PreviewInputs
    /\ pvJson = <<>>
    /\ pvBuilt = FALSE

PreviewBuild ==
    /\ ~pvBuilt
    /\ pvJson' = BuildPreview(pvRows)
    /\ pvBuilt' = TRUE
    /\ pvRows' = pvRows
    /\ UNCHANGED nonPvVars

RagIdle ==
    /\ ragVersion = "plain"
    /\ ipc = "start"
    /\ indexCreated = FALSE
    /\ items = <<>>
    /\ bgCreate = "none"
    /\ sawIndex = FALSE
    /\ chunks = <<>>
    /\ ins = <<>>
    /\ nFetch = 0
    /\ nCreate = 0
    /\ nEmbed = 0
    /\ nInsert = 0
    /\ itemsAtStart = <<>>
    /\ built = FALSE

LoopIdle ==
    /\ loopTotal = 0
    /\ loopStarted = 0
    /\ loopFinished = 0

NoResult == [found |-> -1, verified |-> -1]

AgIdle ==
    /\ apc = "query"
    /\ candidates = <<>>
    /\ chk = <<>>
    /\ filterCalls = <<>>
    /\ verifiedChunks = <<>>
    /\ synthCalls = 0
    /\ synthChunks = <<>>
    /\ synthEarly = FALSE
    /\ failedAt = "none"
    /\ result = NoResult

StIdle ==
    /\ spc = "query"
    /\ sIndex = 0
    /\ sFound = 0
    /\ sStarted = 0
    /\ sFinished = 0
    /\ sRelevant = 0
    /\ sPassed = 0
    /\ sStats = NoResult

PlanIdle ==
    /\ PlanInit
    /\ program = "index"

Init == PlanInit /\ PvIdle /\ RagIdle /\ LoopIdle /\ AgIdle /\ StIdle

Next == PlanNext

Spec == Init /\ [][Next]_vars

PvSpecInit == PlanIdle /\ PvInit /\ RagIdle /\ LoopIdle /\ AgIdle /\ StIdle

PvNext == PreviewBuild

SpecPreview == PvSpecInit /\ [][PvNext]_vars

\* ------------------------------------------------------------------------
\* The revision with one global database handle, beside the plain-JS revision.
\* It imports input.json (no loadInput) and opens the handle after the download.
\* ------------------------------------------------------------------------

\* input.json as imported: the four fields filled in
ImportedInputs == { p \in ParsedInputs : ~InputIncomplete(p) }

GlobalPlanInit ==
    /\ program = "global"
    /\ step = [s \in StepSet |-> IF s = "load" THEN "done" ELSE "idle"]
    /\ parsed = NoInput
    /\ input \in ImportedInputs
    /\ err = NoErr
    /\ dlpc = "none"
    /\ dbFile = [p \in DbPaths |-> FALSE]
    /\ httpRequests = 0
    /\ fileWrites = 0
    /\ dlSawFile = FALSE
    /\ dlRetry = FALSE
    /\ dbPathOut = <<>>
    /\ downloads = [p \in DbPaths |-> 0]
    /\ httpFailed = {}
    /\ calls = <<>>
    /\ collectedData = <<>>
    /\ dataPointCounter = 1
    /\ htmlWrites = 0
    /\ schemaDb = NoHandle
    /\ dbh = "unset"
    /\ dbCloses = 0
    /\ strayQueries = 0
    /\ dataFiles = <<>>

GlobalSpecInit ==
    /\ PlanIdle \/ GlobalPlanInit
    /\ PvIdle /\ RagIdle /\ LoopIdle /\ AgIdle /\ StIdle

GlobalNext ==
    \/ LoadStart
    \/ LoadFinish
    \/ DownloadStart
    \/ DownloadResponse
    \/ DownloadBody
    \/ DownloadWrite
    \/ OpenDb
    \/ ExtractSchema
    \/ PlannerStart
    \/ ToolCall
    \/ ToolResume
    \/ PlannerFinish
    \/ GeneratorStart
    \/ GeneratorFinish
    \/ WrapStart
    \/ WrapFinish
    \/ WriteDashboard
    \/ Restart

SpecGlobal == GlobalSpecInit /\ [][GlobalNext]_vars

\* ------------------------------------------------------------------------
\* runIndexing (RAG example), in its three revisions:
\*   "script"      createIndex, getRawChunks, then the indexingAgent script
\*   "background"  createIndex left running while the text is chunked
\*   "plain"       createIndex awaited, then the plain loop
\* ------------------------------------------------------------------------

RagVersions == {"script", "background", "plain"}

\* the awaited calls of runIndexing after the isIndexCreated check, in order
IndexStages(v) ==
    CASE v = "script"     -> <<"create", "fetch", "chunk", "insert">>
      [] v = "background" -> <<"fetch", "createBg", "chunk", "awaitIndex", "insert">>
      [] v = "plain"      -> <<"fetch", "create", "chunk", "insert">>

StageAfter(stage) ==
    LET st == IndexStages(ragVersion)
        i == CHOOSE k \in 1..Len(st) : st[k] = stage
    IN  IF i = Len(st) THEN "done" ELSE st[i + 1]

RagInit ==
    /\ ragVersion \in RagVersions
    /\ ipc = "start"
    /\ indexCreated = FALSE
    /\ items = <<>>
    /\ bgCreate = "none"
    /\ sawIndex = FALSE
    /\ chunks = <<>>
    /\ ins = <<>>
    /\ nFetch = 0
    /\ nCreate = 0
    /\ nEmbed = 0
    /\ nInsert = 0
    /\ itemsAtStart = <<>>
    /\ built = FALSE

\* a build that never looks for an index
SkipBuildNever == FALSE

\* if (await index.isIndexCreated()) return;
SkipBuild == indexCreated

IndexCheck ==
    /\ ipc = "start"
    /\ sawIndex' = indexCreated
    /\ itemsAtStart' = items
    /\ ipc' = IF SkipBuild THEN "skipped" ELSE IndexStages(ragVersion)[1]
    /\ UNCHANGED << ragVersion, indexCreated, items, bgCreate, chunks, ins, nFetch, nCreate,
                    nEmbed, nInsert, built >>
    /\ UNCHANGED nonRagVars

\* fetch(SOTU_URL) and response.text(); the later revisions reject a short text
IndexFetch ==
    /\ ipc = "fetch"
    /\ nFetch' = nFetch + 1
    /\ \/ ipc' = "failed"
       \/ \E longText \in BOOLEAN :
             ipc' = IF ~longText /\ ragVersion # "script" THEN "failed" ELSE StageAfter("fetch")
    /\ UNCHANGED << ragVersion, indexCreated, items, bgCreate, sawIndex, chunks, ins, nCreate,
                    nEmbed, nInsert, itemsAtStart, built >>
    /\ UNCHANGED nonRagVars

\* await index.createIndex(): createIndex throws when the index exists already
IndexCreate ==
    /\ ipc = "create"
    /\ nCreate' = nCreate + 1
    /\ \/ /\ ipc' = "failed"
          /\ UNCHANGED << indexCreated, items >>
       \/ /\ ~indexCreated
          /\ indexCreated' = TRUE
          /\ items' = <<>>
          /\ ipc' = StageAfter("create")
    /\ UNCHANGED << ragVersion, bgCreate, sawIndex, chunks, ins, nFetch, nEmbed, nInsert,
                    itemsAtStart, built >>
    /\ UNCHANGED nonRagVars

\* const indexPromise = index.createIndex(): not awaited yet
IndexCreateBg ==
    /\ ipc = "createBg"
    /\ nCreate' = nCreate + 1
    /\ bgCreate' = "pending"
    /\ ipc' = StageAfter("createBg")
    /\ UNCHANGED << ragVersion, indexCreated, items, sawIndex, chunks, ins, nFetch, nEmbed,
                    nInsert, itemsAtStart, built >>
    /\ UNCHANGED nonRagVars

\* the background createIndex settles
CreateSettle ==
    /\ bgCreate = "pending"
    /\ \/ /\ bgCreate' = "failed"
          /\ UNCHANGED << indexCreated, items >>
       \/ /\ ~indexCreated
          /\ bgCreate' = "done"
          /\ indexCreated' = TRUE
          /\ items' = <<>>
    /\ UNCHANGED << ragVersion, ipc, sawIndex, chunks, ins, nFetch, nCreate, nEmbed, nInsert,
                    itemsAtStart, built >>
    /\ UNCHANGED nonRagVars

\* the chunker (with its embedding calls) returns the chunks, or throws
IndexChunk ==
    /\ ipc = "chunk"
    /\ nEmbed' = nEmbed + 1
    /\ \/ /\ ipc' = "failed"
          /\ UNCHANGED << chunks, ins >>
       \/ \E n \in 0..MaxChunks :
             /\ chunks' = [i \in 1..n |-> i]
             /\ ins' = [i \in 1..n |-> "pending"]
             /\ ipc' = StageAfter("chunk")
    /\ UNCHANGED << ragVersion, indexCreated, items, bgCreate, sawIndex, nFetch, nCreate,
                    nInsert, itemsAtStart, built >>
    /\ UNCHANGED nonRagVars

\* await indexPromise
IndexAwait ==
    /\ ipc = "awaitIndex"
    /\ bgCreate \in {"done", "failed"}
    /\ ipc' = IF bgCreate = "done" THEN StageAfter("awaitIndex") ELSE "failed"
    /\ UNCHANGED << ragVersion, indexCreated, items, bgCreate, sawIndex, chunks, ins, nFetch,
                    nCreate, nEmbed, nInsert, itemsAtStart, built >>
    /\ UNCHANGED nonRagVars

\* db.insert without the '!': every iteration of the parallel loop calls it at once
BangUnsequenced(i) == TRUE

\* db!.insert(...): the calls on the path db run one after another, in loop order
BangSequenced(i) == \A j \in 1..(i - 1) : ins[j] = "done"

\* for (const chunk of chunks) { await index.insertItem(...) }
LoopAwaited(i) == \A j \in 1..(i - 1) : ins[j] = "done"

MayInsert(i) == IF ragVersion = "script" THEN BangSequenced(i) ELSE LoopAwaited(i)

\* index.insertItem is called for chunk i
InsertStart ==
    /\ ipc = "insert"
    /\ \E i \in 1..Len(chunks) :
          /\ ins[i] = "pending"
          /\ MayInsert(i)
          /\ ins' = [ins EXCEPT ![i] = "running"]
    /\ nInsert' = nInsert + 1
    /\ UNCHANGED << ragVersion, ipc, indexCreated, items, bgCreate, sawIndex, chunks, nFetch,
                    nCreate, nEmbed, itemsAtStart, built >>
    /\ UNCHANGED nonRagVars

\* an insertItem call settles: the item is in the index, or the call threw and
\* no further insert starts
InsertFinish ==
    /\ \E i \in 1..Len(chunks) :
          /\ ins[i] = "running"
          /\ \/ /\ ins' = [ins EXCEPT ![i] = "done"]
                /\ items' = Append(items, chunks[i])
                /\ ipc' = ipc
             \/ /\ ins' = [ins EXCEPT ![i] = "failed"]
                /\ items' = items
                /\ ipc' = "failed"
    /\ UNCHANGED << ragVersion, indexCreated, bgCreate, sawIndex, chunks, nFetch, nCreate,
                    nEmbed, nInsert, itemsAtStart, built >>
    /\ UNCHANGED nonRagVars

\* the loop has run out: runIndexing returns
IndexDone ==
    /\ ipc = "insert"
    /\ \A i \in 1..Len(chunks) : ins[i] = "done"
    /\ ipc' = "done"
    /\ UNCHANGED << ragVersion, indexCreated, items, bgCreate, sawIndex, chunks, ins, nFetch,
                    nCreate, nEmbed, nInsert, itemsAtStart, built >>
    /\ UNCHANGED nonRagVars

RagRunEnded == ipc \in {"skipped", "done", "failed"}

\* the program is run again
RagRestart ==
    /\ RagRunEnded
    /\ bgCreate # "pending"
    /\ Cardinality({ i \in 1..Len(chunks) : ins[i] = "running" }) = 0
    /\ ipc' = "start"
    /\ bgCreate' = "none"
    /\ sawIndex' = FALSE
    /\ chunks' = <<>>
    /\ ins' = <<>>
    /\ nFetch' = 0
    /\ nCreate' = 0
    /\ nEmbed' = 0
    /\ nInsert' = 0
    /\ itemsAtStart' = <<>>
    /\ built' = (built \/ ipc = "done")
    /\ UNCHANGED << ragVersion, indexCreated, items >>
    /\ UNCHANGED nonRagVars

\* scripts/clean.mjs between two runs: the folder vectra_index is deleted
Clean ==
    /\ ipc = "start"
    /\ ragVersion # "script"
    /\ indexCreated
    /\ indexCreated' = FALSE
    /\ items' = <<>>
    /\ built' = FALSE
    /\ UNCHANGED << ragVersion, ipc, bgCreate, sawIndex, chunks, ins, nFetch, nCreate, nEmbed,
                    nInsert, itemsAtStart >>
    /\ UNCHANGED nonRagVars

RagNext ==
    \/ IndexCheck
    \/ IndexFetch
    \/ IndexCreate
    \/ IndexCreateBg
    \/ CreateSettle
    \/ IndexChunk
    \/ IndexAwait
    \/ InsertStart
    \/ InsertFinish
    \/ IndexDone
    \/ RagRestart
    \/ Clean

RagSpecInit == PlanIdle /\ PvIdle /\ RagInit /\ LoopIdle /\ AgIdle /\ StIdle

SpecRag == RagSpecInit /\ [][RagNext]_vars

\* ------------------------------------------------------------------------
\* The relevance-filtering loop of ragAgent:
\*   for text in candidates of CONCURRENCY_LIMIT
\* The loop is run on candidate lists of every length up to MaxCandidates;
\* queryVectorDb itself asks the index for at most 20 items.
\* ------------------------------------------------------------------------

CONCURRENCY_LIMIT == 20

\* the loop of the first revision: for text in candidates
LoopOfNone == [limited |-> FALSE, limit |-> 0]

\* the loop header: ... of CONCURRENCY_LIMIT
LoopOf == [limited |-> TRUE, limit |-> CONCURRENCY_LIMIT]

\* relevanceFilter calls that have not settled
InFlight == loopStarted - loopFinished

\* the runtime starts another iteration of a limited loop only below the limit
IterationMayStart == ~LoopOf.limited \/ InFlight < LoopOf.limit

LoopInit ==
    /\ loopTotal \in 0..MaxCandidates
    /\ loopStarted = 0
    /\ loopFinished = 0

\* an iteration starts: relevanceFilter is called for the next candidate
IterStart ==
    /\ loopStarted < loopTotal
    /\ IterationMayStart
    /\ loopStarted' = loopStarted + 1
    /\ UNCHANGED << loopTotal, loopFinished >>
    /\ UNCHANGED nonLoopVars

\* some relevanceFilter call in flight settles
IterFinish ==
    /\ loopFinished < loopStarted
    /\ loopFinished' = loopFinished + 1
    /\ UNCHANGED << loopTotal, loopStarted >>
    /\ UNCHANGED nonLoopVars

LoopNext ==
    \/ IterStart
    \/ IterFinish

LoopSpecInit == PlanIdle /\ PvIdle /\ RagIdle /\ LoopInit /\ AgIdle /\ StIdle

SpecLoop == LoopSpecInit /\ [][LoopNext]_vars

\* ------------------------------------------------------------------------
\* The ragAgent script, one query followed check by check:
\*   candidates = queryVectorDb(query); the capture block with the filtering
\*   loop; synthesizeAnswer; the stats
\* ------------------------------------------------------------------------

Texts == {"t1", "t2"}

\* the texts of the index, best match first; two items may hold the same text
StoredLists == SeqsUpTo(Texts, MaxStored)

\* index.queryItems(queryVector, query, 20)
TopK == 20

\* a query that returns every item of the index
QueryVectorDbAll(stored) == stored

\* queryVectorDb: the texts of the top 20 items
QueryVectorDb(stored) == SubSeq(stored, 1, Min(Len(stored), TopK))

\* var candidates = queryVectorDb(query): the embedding or the index query throws,
\* or the candidates arrive
AgentQuery ==
    /\ apc = "query"
    /\ \/ /\ apc' = "failed"
          /\ failedAt' = "query"
          /\ UNCHANGED << candidates, chk, filterCalls >>
       \/ \E stored \in StoredLists :
             /\ candidates' = QueryVectorDb(stored)
             /\ chk' = [i \in 1..Len(candidates') |-> "pending"]
             /\ filterCalls' = [i \in 1..Len(candidates') |-> 0]
             /\ apc' = "filter"
             /\ failedAt' = failedAt
    /\ UNCHANGED << verifiedChunks, synthCalls, synthChunks, synthEarly, result >>
    /\ UNCHANGED nonAgVars

ChecksInFlight == Cardinality({ i \in 1..Len(candidates) : chk[i] = "running" })

Unsettled == { i \in 1..Len(candidates) : chk[i] \in {"pending", "running"} }

\* an iteration of the loop starts: relevanceFilter is called for candidates[i]
CheckStart ==
    /\ apc = "filter"
    /\ ~LoopOf.limited \/ ChecksInFlight < LoopOf.limit
    /\ \E i \in 1..Len(candidates) :
          /\ chk[i] = "pending"
          /\ chk' = [chk EXCEPT ![i] = "running"]
          /\ filterCalls' = [filterCalls EXCEPT ![i] = @ + 1]
    /\ UNCHANGED << apc, candidates, verifiedChunks, synthCalls, synthChunks, synthEarly,
                    failedAt, result >>
    /\ UNCHANGED nonAgVars

\* a loop body that pushes every candidate
PushesAlways(isRelevant) == TRUE

\* if check.isRelevant ... @data.push(text)
Pushes(isRelevant) == isRelevant

\* a relevanceFilter call settles: it throws, or the body runs on its verdict
CheckSettle ==
    /\ \E i \in 1..Len(candidates) :
          /\ chk[i] = "running"
          /\ \/ /\ chk' = [chk EXCEPT ![i] = "failed"]
                /\ UNCHANGED verifiedChunks
             \/ \E isRelevant \in BOOLEAN :
                   /\ chk' = [chk EXCEPT ![i] = IF isRelevant THEN "relevant" ELSE "irrelevant"]
                   /\ verifiedChunks' = IF Pushes(isRelevant)
                                           THEN Append(verifiedChunks, candidates[i])
                                           ELSE verifiedChunks
    /\ UNCHANGED << apc, candidates, filterCalls, synthCalls, synthChunks, synthEarly,
                    failedAt, result >>
    /\ UNCHANGED nonAgVars

\* the loop has run out and a check threw: the script fails
FilterFailed ==
    /\ apc = "filter"
    /\ Unsettled = {}
    /\ \E i \in 1..Len(candidates) : chk[i] = "failed"
    /\ apc' = "failed"
    /\ failedAt' = "filter"
    /\ UNCHANGED << candidates, chk, filterCalls, verifiedChunks, synthCalls, synthChunks,
                    synthEarly, result >>
    /\ UNCHANGED nonAgVars

\* a call that waits for nothing
SynthReadyEager == TRUE

\* synthesizeAnswer reads verifiedChunks, the value of the capture block: the call
\* waits until the block, and so every iteration of its loop, has completed
SynthReady == \A i \in 1..Len(candidates) : chk[i] \in {"relevant", "irrelevant"}

\* var answer = synthesizeAnswer({ query, chunks: verifiedChunks })
SynthStart ==
    /\ apc = "filter"
    /\ SynthReady
    /\ synthCalls' = synthCalls + 1
    /\ synthChunks' = verifiedChunks
    /\ synthEarly' = (Unsettled # {})
    /\ apc' = "synth"
    /\ UNCHANGED << candidates, chk, filterCalls, verifiedChunks, failedAt, result >>
    /\ UNCHANGED nonAgVars

\* synthesizeAnswer settles: it throws, or the script writes the stats and the answer
SynthSettle ==
    /\ apc = "synth"
    /\ \/ /\ apc' = "failed"
          /\ failedAt' = "synth"
          /\ UNCHANGED result
       \/ /\ apc' = "done"
          /\ result' = [found |-> Len(candidates), verified |-> Len(verifiedChunks)]
          /\ UNCHANGED failedAt
    /\ UNCHANGED << candidates, chk, filterCalls, verifiedChunks, synthCalls, synthChunks,
                    synthEarly >>
    /\ UNCHANGED nonAgVars

AgNext ==
    \/ AgentQuery
    \/ CheckStart
    \/ CheckSettle
    \/ FilterFailed
    \/ SynthStart
    \/ SynthSettle

AgSpecInit == PlanIdle /\ PvIdle /\ RagIdle /\ LoopIdle /\ AgIdle /\ StIdle

SpecAgent == AgSpecInit /\ [][AgNext]_vars

\* ------------------------------------------------------------------------
\* The ragAgent script on an index of any size up to MaxIndexItems, the checks
\* counted: what the stats of the result say
\* ------------------------------------------------------------------------

StInit ==
    /\ spc = "query"
    /\ sIndex \in 0..MaxIndexItems
    /\ sFound = 0
    /\ sStarted = 0
    /\ sFinished = 0
    /\ sRelevant = 0
    /\ sPassed = 0
    /\ sStats = NoResult

\* var candidates = queryVectorDb(query)
StatsQuery ==
    /\ spc = "query"
    /\ \/ /\ spc' = "failed"
          /\ UNCHANGED sFound
       \/ /\ sFound' = Len(QueryVectorDb([i \in 1..sIndex |-> "t1"]))
          /\ spc' = "filter"
    /\ UNCHANGED << sIndex, sStarted, sFinished, sRelevant, sPassed, sStats >>
    /\ UNCHANGED nonStVars

\* relevanceFilter is called for the next candidate
StatsCheckStart ==
    /\ spc = "filter"
    /\ sStarted < sFound
    /\ ~LoopOf.limited \/ sStarted - sFinished < LoopOf.limit
    /\ sStarted' = sStarted + 1
    /\ UNCHANGED << spc, sIndex, sFound, sFinished, sRelevant, sPassed, sStats >>
    /\ UNCHANGED nonStVars

\* a relevanceFilter call settles: it throws and the script fails, or its verdict
\* decides the push
StatsCheckSettle ==
    /\ spc = "filter"
    /\ sFinished < sStarted
    /\ sFinished' = sFinished + 1
    /\ \/ /\ spc' = "failed"
          /\ UNCHANGED sRelevant
       \/ \E isRelevant \in BOOLEAN :
             /\ sRelevant' = IF Pushes(isRelevant) THEN sRelevant + 1 ELSE sRelevant
             /\ spc' = spc
    /\ UNCHANGED << sIndex, sFound, sStarted, sPassed, sStats >>
    /\ UNCHANGED nonStVars

\* synthesizeAnswer is called with verifiedChunks
StatsSynth ==
    /\ spc = "filter"
    /\ sFinished = sFound
    /\ sPassed' = sRelevant
    /\ spc' = "synth"
    /\ UNCHANGED << sIndex, sFound, sStarted, sFinished, sRelevant, sStats >>
    /\ UNCHANGED nonStVars

\* @data.stats.found = candidates.length; @data.stats.verified = verifiedChunks.length
StatsOutput ==
    /\ spc = "synth"
    /\ \/ /\ spc' = "failed"
          /\ UNCHANGED sStats
       \/ /\ spc' = "done"
          /\ sStats' = [found |-> sFound, verified |-> sRelevant]
    /\ UNCHANGED << sIndex, sFound, sStarted, sFinished, sRelevant, sPassed >>
    /\ UNCHANGED nonStVars

StNext ==
    \/ StatsQuery
    \/ StatsCheckStart
    \/ StatsCheckSettle
    \/ StatsSynth
    \/ StatsOutput

StSpecInit == PlanIdle /\ PvIdle /\ RagIdle /\ LoopIdle /\ AgIdle /\ StInit

SpecStats == StSpecInit /\ [][StNext]_vars

\* ------------------------------------------------------------------------
\* Properties of the dashboard generator
\* ------------------------------------------------------------------------

InputFields == {"datasetName", "datasetDescription", "databaseUrl", "userRequest"}

\* a field of the parsed input.json is missing (undefined, null) or the empty string
MissingOrEmpty(v) == v = JsUndefined \/ v = JsNull \/ v = Str("")

\* loadInput got as far as JSON.parse
Parsed == step["load"] \in {"done", "failed"} /\ err.msg # "cannot read or parse input.json"

ThisDbPath == GetDbPath(input.datasetName.s)

\* C1: loadInput throws the input.json error exactly when one of the four fields
\* of the parsed record is missing or empty, returns the parsed record unchanged
\* otherwise, and after it has thrown no later step of the orchestrator runs
\* (no download, schema extraction, planner, generator, wrap or write).
C1_LoadInputValidates ==
    /\ Parsed =>
          IF \E f \in InputFields : MissingOrEmpty(parsed[f])
          THEN step["load"] = "failed" /\ err = Err(InputErrMsg) /\ input = NoInput
          ELSE step["load"] = "done" /\ input = parsed
    /\ step["load"] = "failed" =>
          /\ \A s \in StepSet \ {"load"} : step[s] = "idle"
          /\ httpRequests = 0 /\ fileWrites = 0 /\ calls = <<>> /\ htmlWrites = 0

\* loadInput threw because userRequest alone is empty
C1_Witness ==
    /\ step["load"] = "failed"
    /\ err = Err(InputErrMsg)
    /\ parsed.userRequest = Str("")
    /\ \A f \in InputFields \ {"userRequest"} : ~MissingOrEmpty(parsed[f])

\* C2: a call of downloadDatabaseIfMissing that finds the file returns its path
\* with no HTTP request and no write, the file still there; so no path is ever
\* downloaded twice.
C2_SkipWhenFileExists ==
    /\ (step["download"] # "idle" /\ dlSawFile) =>
          /\ step["download"] = "done"
          /\ dbPathOut = ThisDbPath
          /\ dbFile[ThisDbPath]
          /\ httpRequests = 0
          /\ fileWrites = 0
    /\ \A p \in DbPaths : downloads[p] <= 1

\* a later run finds the file an earlier run downloaded
C2_Witness ==
    /\ step["download"] = "done"
    /\ dlSawFile
    /\ downloads[dbPathOut] = 1

\* C3: a not-ok response makes downloadDatabaseIfMissing throw an error that
\* carries the URL, the status code and the status text; nothing is written, the
\* path still does not exist, and the next call for that path requests the
\* download again; when the function returns, the file exists at the path returned.
C3_FailedDownloadLeavesNoFile ==
    /\ (step["download"] = "failed" /\ err.msg = DownloadErrMsg) =>
          /\ err.arg = <<input.databaseUrl.s>>
          /\ \E r \in Responses :
                ~r.ok /\ err.status = r.status /\ err.statusText = r.statusText
          /\ ~dbFile[ThisDbPath]
          /\ fileWrites = 0
          /\ ThisDbPath \in httpFailed
    /\ \A p \in httpFailed : ~dbFile[p]
    /\ (step["download"] # "idle" /\ dlRetry) => (~dlSawFile /\ httpRequests = 1)
    /\ step["download"] = "done" => (dbPathOut = ThisDbPath /\ dbFile[dbPathOut])

\* a run whose download follows a not-ok download and now succeeds
C3_Witness ==
    /\ dlRetry
    /\ step["download"] = "done"
    /\ httpRequests = 1
    /\ dbFile[dbPathOut]

\* C4 as stated: a blank generator text makes the call throw the empty-query error
\* with no statement prepared, and every dataTool call invokes the SQL generator
\* exactly once.
C4_GeneratorOncePerCall ==
    program = "index" =>
    \A i \in 1..Len(calls) :
       /\ calls[i].blank =>
             /\ calls[i].st = "failed"
             /\ calls[i].err = Err(EmptySqlMsg)
             /\ calls[i].prepared = 0
       /\ calls[i].gens = 1

\* C4 amended: a blank generator text makes the call throw the empty-query error
\* with no database opened and no statement prepared; the SQL generator is invoked
\* at most once per call: once in a call that finds the database file, never in a
\* call that does not.
C4_GeneratorAtMostOnce ==
    program = "index" =>
    \A i \in 1..Len(calls) :
       /\ calls[i].blank =>
             /\ calls[i].st = "failed"
             /\ calls[i].err = Err(EmptySqlMsg)
             /\ calls[i].prepared = 0
             /\ calls[i].opened = 0
       /\ calls[i].gens = (IF calls[i].sawFile THEN 1 ELSE 0)

\* a call whose generator returned only whitespace
C4_Witness ==
    \E i \in 1..Len(calls) :
       calls[i].blank /\ calls[i].st = "failed" /\ calls[i].gens = 1

\* C6: the orchestrator is a linear sequence: a step has started only if every
\* step before it has completed, at most one step runs at a time, dataTool runs
\* only inside the planner and after the download, and dashboard.html is written
\* at most once and only after generator and wrap have returned.
C6_LinearOrchestration ==
    /\ \A i \in 1..Len(Steps) : \A j \in 1..(i - 1) :
          step[Steps[i]] # "idle" => step[Steps[j]] = "done"
    /\ Cardinality({ s \in StepSet : step[s] = "running" }) <= 1
    /\ calls # <<>> => (step["download"] = "done" /\ step["planner"] # "idle")
    /\ ~Settled => step["planner"] = "running"
    /\ htmlWrites <= 1
    /\ htmlWrites = 1 => (step["generator"] = "done" /\ step["wrap"] = "done")
    /\ step["write"] # "idle" => htmlWrites = 1

\* dashboard.html written in a run whose planner called dataTool
C6_Witness ==
    /\ step["write"] = "done"
    /\ htmlWrites = 1
    /\ calls # <<>>

\* C7: a dataTool call whose datasetName has no database file throws the
\* not-found error before the SQL generator is called and before a database is
\* opened, and dataTool never downloads: the file is still missing and the only
\* request of the run is the orchestrator's.
C7_ToolRequiresDatabase ==
    /\ \A i \in 1..Len(calls) :
          (program = "index" /\ ~calls[i].sawFile) =>
             /\ calls[i].st = "failed"
             /\ calls[i].err = DbNotFoundErr(GetDbPath(calls[i].name))
             /\ calls[i].gens = 0
             /\ calls[i].opened = 0
             /\ calls[i].prepared = 0
             /\ ~dbFile[GetDbPath(calls[i].name)]
    /\ calls # <<>> =>
          /\ httpRequests = (IF dlSawFile THEN 0 ELSE 1)
          /\ fileWrites = httpRequests

\* the planner called dataTool for a dataset that was never downloaded
C7_Witness ==
    \E i \in 1..Len(calls) :
       ~calls[i].sawFile /\ calls[i].err.msg = DbNotFoundMsg /\ calls[i].name # input.datasetName.s

\* ------------------------------------------------------------------------
\* Properties of the preview
\* ------------------------------------------------------------------------

\* the rows a preview shows, in order
ShownRows(json) ==
    LET rowToks == SelectSeq(json, LAMBDA t : t.k = "row")
    IN  [i \in 1..Len(rowToks) |-> rowToks[i].v]

\* the "... N more items" texts of a preview
MoreTexts(json) == SelectSeq(json, LAMBDA t : t.k = "... N more items")

\* C5: the preview of n rows shows all of them, in order and with no truncation
\* text, when n <= 5; when n > 5 it shows exactly the first 3 rows, in order,
\* followed by one text "... N more items" with N = n - 3.
C5_PreviewTruncation ==
    pvBuilt =>
       LET n == Len(pvRows)
           shown == ShownRows(pvJson)
           more == MoreTexts(pvJson)
       IN  IF n <= 5
           THEN shown = pvRows /\ more = <<>>
           ELSE /\ shown = SubSeq(pvRows, 1, 3)
                /\ Len(more) = 1
                /\ more[1].v = n - 3
                /\ Len(shown) + more[1].v = n
                /\ \E i \in 1..Len(pvJson) :
                      /\ pvJson[i] = more[1]
                      /\ \A j \in 1..Len(pvJson) : pvJson[j].k = "row" => j < i

\* a truncated preview of seven rows that are not all alike
C5_Witness ==
    /\ pvBuilt
    /\ Len(pvRows) = 7
    /\ pvRows[1] # pvRows[2]
    /\ Len(MoreTexts(pvJson)) = 1

\* ------------------------------------------------------------------------
\* Properties of the RAG example
\* ------------------------------------------------------------------------

Running == { i \in 1..Len(chunks) : ins[i] = "running" }

\* C8: when isIndexCreated() is true runIndexing returns at once: no download,
\* no chunking or embedding, no createIndex, no insert, the index as it was; and
\* once a build has completed, every later run takes that way.
C8_IndexingSkipsExistingIndex ==
    /\ (ipc # "start" /\ sawIndex) =>
          /\ ipc = "skipped"
          /\ nFetch = 0 /\ nCreate = 0 /\ nEmbed = 0 /\ nInsert = 0
          /\ items = itemsAtStart
          /\ indexCreated
    /\ ipc = "skipped" => sawIndex
    /\ (ipc # "start" /\ built) => ipc = "skipped"

\* a run that skips the build an earlier run completed
C8_Witness ==
    /\ built
    /\ ipc = "skipped"
    /\ Len(items) >= 2

\* C9: at most one insertItem call is in flight, an insert has started only if
\* all inserts of earlier chunks have completed, and the index holds the chunks
\* inserted so far in the order of the chunk list; in the script revision
\* (db!.insert) as in the plain loop.
C9_InsertsSequential ==
    /\ Cardinality(Running) <= 1
    /\ \A i \in 1..Len(chunks) :
          ins[i] # "pending" => \A j \in 1..(i - 1) : ins[j] = "done"
    /\ chunks # <<>> =>
          items = SubSeq(chunks, 1, Cardinality({ i \in 1..Len(chunks) : ins[i] = "done" }))

\* the script revision has inserted two chunks and is inserting the third
C9_Witness ==
    /\ ragVersion = "script"
    /\ Len(chunks) = 3
    /\ ins[3] = "running"
    /\ items = <<1, 2>>

\* C10: in the loop 'for text in candidates of CONCURRENCY_LIMIT' no more than 20
\* relevanceFilter calls are in flight at a time, however many candidates there
\* are and in whatever order the calls settle.
C10_FilterConcurrencyBounded == InFlight <= 20

\* the limit holds an iteration back: 20 calls in flight and candidates waiting
C10_Witness ==
    /\ InFlight = 20
    /\ loopStarted < loopTotal

\* ------------------------------------------------------------------------
\* Properties of the ragAgent script
\* ------------------------------------------------------------------------

Count(seq, t) == Cardinality({ i \in 1..Len(seq) : seq[i] = t })

Relevant(t) == { i \in 1..Len(candidates) : candidates[i] = t /\ chk[i] = "relevant" }

\* C11: relevanceFilter is invoked exactly once for each candidate, and
\* verifiedChunks holds exactly the candidates judged relevant, each once (two
\* candidates with the same text count as two).
C11_FilterVerifiesEveryCandidate ==
    /\ \A i \in 1..Len(candidates) : filterCalls[i] <= 1
    /\ apc \in {"synth", "done", "failed"} =>
          \A i \in 1..Len(candidates) : filterCalls[i] = 1
    /\ \A t \in Texts : Count(verifiedChunks, t) = Cardinality(Relevant(t))
    /\ Len(verifiedChunks) <= Len(candidates)

\* two candidates with the same text, one kept and one discarded, and a third kept
C11_Witness ==
    /\ apc = "done"
    /\ Len(candidates) = 3
    /\ candidates[1] = candidates[2]
    /\ chk[1] = "relevant"
    /\ chk[2] = "irrelevant"
    /\ chk[3] = "relevant"
    /\ Len(verifiedChunks) = 2

\* C12 as stated: every run that has ended invoked synthesizeAnswer exactly once,
\* after all checks, with exactly verifiedChunks.
C12_SynthesizedOnceEveryRun ==
    /\ apc \in {"done", "failed"} => synthCalls = 1
    /\ synthCalls >= 1 => (~synthEarly /\ synthChunks = verifiedChunks)

\* C12: synthesizeAnswer is invoked at most once in a run: once in a run whose
\* query and checks all succeed, not at all in a run in which one of them throws;
\* it starts only after every check has completed and receives exactly
\* verifiedChunks, also when that list is empty.
C12_SynthesizedFromVerifiedOnly ==
    /\ synthCalls <= 1
    /\ apc \in {"synth", "done"} => synthCalls = 1
    /\ apc = "failed" => synthCalls = (IF failedAt = "synth" THEN 1 ELSE 0)
    /\ synthCalls = 1 =>
          /\ ~synthEarly
          /\ Unsettled = {}
          /\ \A i \in 1..Len(candidates) : chk[i] # "failed"
          /\ synthChunks = verifiedChunks

\* a run in which no candidate is judged relevant: the synthesizer gets the empty list
C12_Witness ==
    /\ apc = "done"
    /\ Len(candidates) = 3
    /\ synthCalls = 1
    /\ synthChunks = <<>>

\* C13: in the result of a run, stats.found is the number of candidates
\* queryVectorDb returned, stats.verified the number of chunks handed to the
\* synthesizer, and 0 <= stats.verified <= stats.found <= 20.
C13_StatsConsistent ==
    /\ (spc = "done") = (sStats # NoResult)
    /\ spc = "done" =>
          /\ sStats.found = sFound
          /\ sStats.found = Min(sIndex, 20)
          /\ sStats.verified = sPassed
          /\ 0 <= sStats.verified
          /\ sStats.verified <= sStats.found
          /\ sStats.found <= 20

\* an index of more than 20 items: 20 candidates found, some but not all verified
C13_Witness ==
    /\ spc = "done"
    /\ sIndex > 20
    /\ sStats.found = 20
    /\ sStats.verified = 7

\* ------------------------------------------------------------------------
\* Properties of dataTool's store and of the database handles
\* ------------------------------------------------------------------------

DoneCalls == { i \in 1..Len(calls) : calls[i].st = "done" }

\* the rows of call c are in the JSON file its dataFile names
StoredOnDisk(c) ==
    /\ "file" \in DOMAIN c.key
    /\ DiskPath(c.key.file) \in DOMAIN dataFiles
    /\ dataFiles[DiskPath(c.key.file)] = c.rows

\* the rows of call c are in collectedData under its dataFile
StoredInMemory(c) ==
    /\ c.key \in DOMAIN collectedData
    /\ collectedData[c.key] = c.rows

\* what a successful call returns: the identifier and the preview, nothing else
ReturnsKeyAndPreview(c) ==
    /\ DOMAIN c.ret = {"dataFile", "previewJson"}
    /\ c.ret.dataFile = c.key
    /\ c.ret.previewJson = c.preview
    /\ Len(ShownRows(c.preview)) <= PreviewFullLimit
    /\ Len(c.rows) > PreviewFullLimit => Len(ShownRows(c.preview)) = PreviewHeadRows

C15_DataKeysUnique ==
    /\ dataPointCounter = 1 + Cardinality(DoneCalls)
    /\ \A i \in DoneCalls : \A j \in DoneCalls : i # j => calls[i].key # calls[j].key
    /\ \A i \in DoneCalls : calls[i].key.id \in 1..(dataPointCounter - 1)
    /\ \A i \in DoneCalls : StoredInMemory(calls[i])

\* two overlapping calls for one dataset: the call issued first stored last
C15_Witness ==
    /\ Len(calls) = 2
    /\ DoneCalls = {1, 2}
    /\ calls[1].name = calls[2].name
    /\ calls[1].key.id = 2
    /\ calls[2].key.id = 1
    /\ calls[1].rows # calls[2].rows

NewlyFailed ==
    \E i \in 1..Len(calls') :
       /\ calls'[i].st = "failed"
       /\ i > Len(calls) \/ calls[i].st # "failed"

NewlyDone ==
    \E i \in 1..Len(calls) :
       /\ i <= Len(calls')
       /\ calls[i].st # "done"
       /\ calls'[i].st = "done"

\* C16: a step in which a call fails leaves collectedData and dataPointCounter as
\* they were; they change only in a step in which a call returns its result (or
\* as the program starts again).
C16_FailedCallLeavesStore ==
    [][ /\ NewlyFailed => UNCHANGED << collectedData, dataPointCounter >>
        /\ (collectedData' # collectedData \/ dataPointCounter' # dataPointCounter) =>
              (NewlyDone \/ calls' = <<>>) ]_vars

\* after one call has stored its rows the query of a second call threw: one
\* entry, the counter at 2
C16_Witness ==
    /\ Len(calls) = 2
    /\ calls[1].st = "done"
    /\ calls[2].st = "failed"
    /\ calls[2].prepared = 1
    /\ DOMAIN collectedData = { calls[1].key }
    /\ dataPointCounter = 2

\* C17: in the plain-JS revision every handle extractSchemaSummary or
\* dataTool.execute opens is closed, once, before the function returns or throws:
\* between steps no handle is open.
C17_HandlesClosed ==
    program = "index" =>
       /\ schemaDb.closed = schemaDb.opened
       /\ schemaDb.opened <= 1
       /\ step["schema"] = "done" => schemaDb.opened = 1
       /\ \A i \in 1..Len(calls) :
             /\ calls[i].closed = calls[i].opened
             /\ calls[i].opened <= 1
             /\ calls[i].prepared = 1 => calls[i].opened = 1
       /\ dbh = "unset"

\* a query of dataTool threw after the schema was read: both handles are closed
C17_Witness ==
    /\ program = "index"
    /\ schemaDb = [opened |-> 1, closed |-> 1]
    /\ \E i \in 1..Len(calls) :
          /\ calls[i].err = Err("sqlite error")
          /\ calls[i].opened = 1
          /\ calls[i].closed = 1

\* C18: with the global handle, the handle is opened after the download and
\* before the schema is read, it is closed once, as dashboardOrchestrator ends, on
\* success and on failure of any step after the opening, and every query of
\* extractSchemaSummary and of dataTool runs while it is open.
C18_GlobalHandleLifetime ==
    program = "global" =>
       /\ dbh # "unset" => step["download"] = "done"
       /\ dbh = "unset" =>
             /\ step["schema"] \in {"idle", "failed"}
             /\ step["planner"] = "idle"
             /\ calls = <<>>
       /\ dbCloses = (IF dbh = "closed" THEN 1 ELSE 0)
       /\ RunEnded => dbh # "open"
       /\ dbh = "closed" => RunEnded
       /\ strayQueries = 0
       /\ \A i \in 1..Len(calls) : calls[i].prepared = 1 => dbh # "unset"
       /\ schemaDb = NoHandle
       /\ \A i \in 1..Len(calls) : calls[i].opened = 0

\* the generator failed after the planner had queried the data: the handle is closed
C18_Witness ==
    /\ program = "global"
    /\ step["generator"] = "failed"
    /\ DoneCalls # {}
    /\ dbh = "closed"
    /\ dbCloses = 1

====
